---- MODULE Spec2Model ----
(***************************************************************************)
(* Model of the car recommendation engine of src/expert_system.py:         *)
(* normalize_series, compute_axes and recommend over a small in-memory     *)
(* table (a pandas DataFrame), with exact rational arithmetic in place of  *)
(* float64; the text functions parse_budget_input and map_fuel_to_category *)
(* over short texts; and the compare list of src/app.py.                   *)
(***************************************************************************)
EXTENDS Integers, Sequences, FiniteSets, TLC

VARIABLES
    fn,       \* the function called last: "none", "normalize_series", "compute_axes", "recommend",
              \* "parse_budget_input", "map_fuel_to_category", "toggle_compare", "clear_compare"
    pc,       \* "call" before any function has run, "done" once one has
    series,   \* normalize_series: the argument s
    catalog,  \* the DataFrame object passed as df to the last call, as it is now
    given,    \* the content of that object when the call was made
    args,     \* recommend: weights, top_n, filters, soft_* and selected_*
    calls,    \* compute_axes: number of calls made so far (each on the last output)
    ret,      \* the value returned by the last call
    status,   \* "ok" when the last call returned, else the exception it raised
    w,        \* recommend: the weight vector after normalisation
    text,     \* parse_budget_input, map_fuel_to_category: the argument s (None or a text)
    compare   \* st.session_state["compare"]: the list of car ids to compare

vars == <<fn, pc, series, catalog, given, args, calls, ret, status, w, text, compare>>

-----------------------------------------------------------------------------
(* Bounds of the explored inputs.                                          *)

MaxLen == 3        \* longest series passed to normalize_series
MaxVal == 2        \* largest raw number in a cell of a series
MaxRows == 3       \* largest number of catalog rows
MaxCalls == 2      \* compute_axes is applied to its own output up to this often
MaxBudget == 1     \* largest max_budget passed in filters
MaxWeight == 2     \* largest uniform weight a zero weight map is compared with
MaxTokens == 2     \* largest number of pieces a fuel text is put together from
MaxPieces == 3     \* largest number of pieces a budget text is put together from
MaxIds == 5        \* number of car ids that can be toggled into the compare list

-----------------------------------------------------------------------------
(* Cells.  A cell is a number (an exact rational n/d, d > 0, in lowest     *)
(* terms), NaN (a missing value), or a text that is no number.             *)

RECURSIVE GCD(_, _)
GCD(a, b) == IF b = 0 THEN a ELSE GCD(b, a % b)

Abs(x) == IF x < 0 THEN -x ELSE x

NaN == [t |-> "nan", n |-> 0, d |-> 1, s |-> <<>>]

\* a text cell; the text is its sequence of characters
Text(str) == [t |-> "str", n |-> 0, d |-> 1, s |-> str]

\* n/d in lowest terms; a zero denominator gives nan, as numpy's 0.0/0.0 does
\* (the code guards every division, so this arises only when a guard is lost).
Rat(n, d) ==
    IF d = 0 THEN NaN
    ELSE LET g == GCD(Abs(n), Abs(d))
             sg == IF d < 0 THEN -1 ELSE 1
         IN  [t |-> "num", n |-> (sg * n) \div g, d |-> (sg * d) \div g, s |-> <<>>]

Num(k) == Rat(k, 1)

IsNum(x) == x.t = "num"

\* pd.isna on a scalar
isna(x) == x.t = "nan"

Add(x, y) == IF IsNum(x) /\ IsNum(y) THEN Rat(x.n * y.d + y.n * x.d, x.d * y.d) ELSE NaN
Sub(x, y) == IF IsNum(x) /\ IsNum(y) THEN Rat(x.n * y.d - y.n * x.d, x.d * y.d) ELSE NaN
Mul(x, y) == IF IsNum(x) /\ IsNum(y) THEN Rat(x.n * y.n, x.d * y.d) ELSE NaN
Div(x, y) == IF IsNum(x) /\ IsNum(y) THEN Rat(x.n * y.d, x.d * y.n) ELSE NaN

\* comparisons of numbers (both arguments numbers)
Lt(x, y) == x.n * y.d < y.n * x.d
Le(x, y) == x.n * y.d <= y.n * x.d

-----------------------------------------------------------------------------
(* Evaluation helpers: With(e, F) is F(e) with e evaluated once, and       *)
(* Eager(s) is the sequence s with its entries evaluated.                  *)

With(e, F(_)) == CHOOSE r \in {F(x) : x \in {e}} : TRUE

Eager(s) == SubSeq(s, 1, Len(s))

-----------------------------------------------------------------------------
(* Series: a pandas Series is a sequence of cells in index order.          *)

\* pd.to_numeric(s, errors="coerce"): numbers stay, everything else is NaN
to_numeric(s) == [i \in 1..Len(s) |-> IF IsNum(s[i]) THEN s[i] ELSE NaN]

\* s.isnull().all()
isnull_all(s) == \A i \in 1..Len(s) : isna(s[i])

\* s.fillna(v); filling with NaN changes nothing
fillna(s, v) == [i \in 1..Len(s) |-> IF isna(s[i]) THEN v ELSE s[i]]

\* the k-th smallest of the non-missing values of s (k from 1)
kth(s, k) ==
    LET P == {i \in 1..Len(s) : IsNum(s[i])}
    IN  CHOOSE x \in {s[i] : i \in P} :
            /\ Cardinality({i \in P : Lt(s[i], x)}) < k
            /\ Cardinality({i \in P : Le(s[i], x)}) >= k

\* s.median(): NaN skipped; the mean of the two middle values for an even count
median(s) ==
    LET m == Cardinality({i \in 1..Len(s) : IsNum(s[i])})
    IN  IF m = 0 THEN NaN
        ELSE IF m % 2 = 1 THEN kth(s, (m + 1) \div 2)
        ELSE Div(Add(kth(s, m \div 2), kth(s, m \div 2 + 1)), Num(2))

\* s.min() and s.max(): NaN skipped, NaN for an empty or all-NaN series
smin(s) ==
    LET V == {s[i] : i \in {j \in 1..Len(s) : IsNum(s[j])}}
    IN  IF V = {} THEN NaN ELSE CHOOSE x \in V : \A y \in V : Le(x, y)
smax(s) ==
    LET V == {s[i] : i \in {j \in 1..Len(s) : IsNum(s[j])}}
    IN  IF V = {} THEN NaN ELSE CHOOSE x \in V : \A y \in V : Le(y, x)

\* pd.Series(0.0, index=s.index)
zeros(k) == [i \in 1..k |-> Num(0)]

\* a plausible slip: dividing by the maximum instead of the range
rescale_by_max(s_filled, mn, mx) ==
    [i \in 1..Len(s_filled) |-> Div(Sub(s_filled[i], mn), mx)]

\* the rescaling of the last line of normalize_series
rescale(s_filled, mn, mx) ==
    [i \in 1..Len(s_filled) |-> Div(Sub(s_filled[i], mn), Sub(mx, mn))]

normalize_series(s0) ==
    With(Eager(to_numeric(s0)), LAMBDA s :
        IF isnull_all(s) THEN zeros(Len(s))
        ELSE With(median(s), LAMBDA med :
             With(Eager(fillna(s, med)), LAMBDA s_filled :
             With(smin(s_filled), LAMBDA mn :
             With(smax(s_filled), LAMBDA mx :
                IF isna(mn) \/ isna(mx) \/ mx = mn THEN zeros(Len(s))
                ELSE Eager(rescale(s_filled, mn, mx)))))))

NoTable == [obj |-> 0, n |-> 0, col |-> <<>>]

-----------------------------------------------------------------------------
(* DataFrames.  A table is [obj, n, col]: obj names the Python object      *)
(* (a copy is another object), n is the number of rows and col maps each   *)
(* column name to its series of n cells.                                   *)

HasCol(df, c) == c \in DOMAIN df.col

\* df[c] = s, in place
SetCol(df, c, s) ==
    [df EXCEPT !.col = [k \in (DOMAIN df.col) \cup {c} |-> IF k = c THEN s ELSE df.col[k]]]

\* the same object, not a copy
DfAlias(df) == df

\* df.copy(): a new object with the same content
DfCopy(df) == [df EXCEPT !.obj = df.obj + 1]

\* what the caller's object `arg` holds once the local object `loc` has been
\* written in place: the writes are seen iff both are one object
SeenBy(arg, loc) == IF loc.obj = arg.obj THEN loc ELSE arg

NumericCols ==
    <<"power_bhp", "torque_nm", "top_speed_kmph", "mileage_value", "range_km_est",
      "airbags_num", "adas_level_num", "service_cost_per_year_avg",
      "ground_clearance_mm", "sunroof_yes", "cruise_control_yes", "price_inr">>

PerfCols == <<"power_bhp", "torque_nm", "top_speed_kmph">>
EcoCols == <<"mileage_value", "range_km_est">>
SafetyCols == <<"airbags_num", "adas_level_num">>
ComfortCols == <<"sunroof_yes", "cruise_control_yes", "ground_clearance_mm">>

BaseAxes ==
    <<"axis_performance", "axis_economy", "axis_safety", "axis_comfort",
      "axis_ownership", "axis_price">>

Range(f) == {f[i] : i \in DOMAIN f}

\* the loop of lines 110-114: every listed column that exists is coerced
CoerceNumeric(df) ==
    [df EXCEPT !.col = [k \in DOMAIN df.col |->
        IF k \in Range(NumericCols) THEN to_numeric(df.col[k]) ELSE df.col[k]]]

\* [c for c in names if c in df.columns]
PresentCols(df, names) == SelectSeq(names, LAMBDA c : HasCol(df, c))

RECURSIVE SumAt(_, _)
\* the sum of the i-th entries of a list of series
SumAt(ss, i) == IF ss = <<>> THEN Num(0) ELSE Add(Head(ss)[i], SumAt(Tail(ss), i))

\* a plausible slip: .sum(axis=1) in place of .mean(axis=1)
RowSum(ss, k) == [i \in 1..k |-> SumAt(ss, i)]

\* pd.concat(series, axis=1).mean(axis=1)
RowMean(ss, k) == [i \in 1..k |-> Div(SumAt(ss, i), Num(Len(ss)))]

\* an averaged axis: the row mean of the normalised present columns, or 0.0
AveragedAxis(df, names) ==
    With(PresentCols(df, names), LAMBDA cs :
        IF cs # <<>>
        THEN With(Eager([j \in 1..Len(cs) |-> normalize_series(df.col[cs[j]])]),
                  LAMBDA ss : Eager(RowMean(ss, df.n)))
        ELSE zeros(df.n))

\* an inverted axis: 1.0 - normalize_series(df[c].fillna(df[c].median())), or 0.0
InvertedAxis(df, c) ==
    IF HasCol(df, c)
    THEN With(median(df.col[c]), LAMBDA med :
         With(normalize_series(Eager(fillna(df.col[c], med))), LAMBDA nrm :
            Eager([i \in 1..df.n |-> Sub(Num(1), nrm[i])])))
    ELSE zeros(df.n)

\* the axes DataFrame of lines 126-133
AxesOf(df) ==
    [a \in Range(BaseAxes) |->
        CASE a = "axis_performance" -> AveragedAxis(df, PerfCols)
          [] a = "axis_economy" -> AveragedAxis(df, EcoCols)
          [] a = "axis_safety" -> AveragedAxis(df, SafetyCols)
          [] a = "axis_comfort" -> AveragedAxis(df, ComfortCols)
          [] a = "axis_ownership" -> InvertedAxis(df, "service_cost_per_year_avg")
          [] a = "axis_price" -> InvertedAxis(df, "price_inr")]

\* a plausible slip: df[col] += axes[col] when the column is already there
AccumulateAxes(df, axes) ==
    [df EXCEPT !.col = [k \in (DOMAIN df.col) \cup (DOMAIN axes) |->
        IF k \in DOMAIN axes
        THEN IF k \in DOMAIN df.col
             THEN [i \in 1..df.n |-> Add(df.col[k][i], axes[k][i])]
             ELSE axes[k]
        ELSE df.col[k]]]

\* lines 135-136: for col in axes.columns: df[col] = axes[col]
AssignAxes(df, axes) ==
    [df EXCEPT !.col = [k \in (DOMAIN df.col) \cup (DOMAIN axes) |->
        IF k \in DOMAIN axes THEN axes[k] ELSE df.col[k]]]

\* compute_axes(df): out is the returned table, arg is the caller's object
\* after the call
compute_axes(df0) ==
    With(CoerceNumeric(DfCopy(df0)), LAMBDA df :
    With(AssignAxes(df, AxesOf(df)), LAMBDA out :
        [out |-> out, arg |-> SeenBy(df0, out)]))

-----------------------------------------------------------------------------
(* Text and optional values.                                               *)

None == [none |-> TRUE, v |-> <<>>]
Some(x) == [none |-> FALSE, v |-> x]

\* truth value of an Optional[str]: None and "" are false
TruthyStr(o) == ~o.none /\ o.v # <<>>

Upper ==
    <<"A", "B", "C", "D", "E", "F", "G", "H", "I", "J", "K", "L", "M",
      "N", "O", "P", "Q", "R", "S", "T", "U", "V", "W", "X", "Y", "Z">>
Lower ==
    <<"a", "b", "c", "d", "e", "f", "g", "h", "i", "j", "k", "l", "m",
      "n", "o", "p", "q", "r", "s", "t", "u", "v", "w", "x", "y", "z">>

\* str.lower()
str_lower(str) ==
    [i \in 1..Len(str) |->
        IF \E k \in 1..Len(Upper) : Upper[k] = str[i]
        THEN Lower[CHOOSE k \in 1..Len(Upper) : Upper[k] = str[i]]
        ELSE str[i]]

RECURSIVE str_strip(_)
\* str.strip()
str_strip(str) ==
    IF str = <<>> THEN str
    ELSE IF Head(str) = " " THEN str_strip(Tail(str))
    ELSE IF str[Len(str)] = " " THEN str_strip(SubSeq(str, 1, Len(str) - 1))
    ELSE str

\* str.contains(re.escape(sub)): sub occurs in str as a literal substring
str_contains(str, sub) ==
    \E k \in 0..(Len(str) - Len(sub)) : SubSeq(str, k + 1, k + Len(sub)) = sub

Digits == <<"0", "1", "2", "3", "4", "5", "6", "7", "8", "9">>

\* str(x) of a cell of an object column: the text itself, "nan" for NaN, and
\* the float repr of a number (one digit, ".0"; larger numbers do not occur
\* in text columns of the catalogs explored)
astype_str(x) ==
    IF x.t = "str" THEN x.s
    ELSE IF isna(x) THEN <<"n", "a", "n">>
    ELSE IF x.d = 1 /\ x.n \in 0..9 THEN <<Digits[x.n + 1], ".", "0">>
    ELSE <<"?">>

-----------------------------------------------------------------------------
(* recommend.                                                              *)

BaseKeys == <<"performance", "economy", "safety", "comfort", "ownership", "price">>

\* line 152: (D.get("fuel_category", empty).fillna("").astype(str) == selected_fuel)
\* .astype(float); without the column the empty series is aligned to all NaN
FuelPref(D, selected_fuel) ==
    IF HasCol(D, "fuel_category")
    THEN [i \in 1..D.n |->
            LET c == D.col["fuel_category"][i]
            IN  IF (IF isna(c) THEN <<>> ELSE astype_str(c)) = selected_fuel
                THEN Num(1) ELSE Num(0)]
    ELSE [i \in 1..D.n |-> NaN]

\* line 155: D.get("body_type", D.get("original_body_type", empty))
\* .astype(str).str.strip().str.lower(); all NaN when neither column exists
BodyClean(D) ==
    LET src == IF HasCol(D, "body_type") THEN "body_type"
               ELSE IF HasCol(D, "original_body_type") THEN "original_body_type"
               ELSE "none"
    IN  IF src = "none" THEN [i \in 1..D.n |-> NaN]
        ELSE [i \in 1..D.n |-> Text(str_lower(str_strip(astype_str(D.col[src][i]))))]

\* lines 156-157: D["body_clean"].str.contains(re.escape(sel_body), na=False).astype(float)
BodyPref(body_clean, selected_body) ==
    LET sel_body == str_lower(str_strip(selected_body))
    IN  [i \in 1..Len(body_clean) |->
            IF body_clean[i].t = "str" /\ str_contains(body_clean[i].s, sel_body)
            THEN Num(1) ELSE Num(0)]

RECURSIVE SumSeq(_)
SumSeq(xs) == IF xs = <<>> THEN Num(0) ELSE Add(Head(xs), SumSeq(Tail(xs)))

\* a plausible slip: w / w.sum() without the all-zero guard
NormalizeWeightsUnguarded(w0) == [i \in 1..Len(w0) |-> Div(w0[i], SumSeq(w0))]

\* lines 170-172: if w.sum() == 0: w = ones; w = w / w.sum()
NormalizeWeights(w0) ==
    LET w1 == IF SumSeq(w0) = Num(0) THEN [i \in 1..Len(w0) |-> Num(1)] ELSE w0
    IN  [i \in 1..Len(w1) |-> Div(w1[i], SumSeq(w1))]

\* lines 174-176: final_score = sum of w[i] * D[col].fillna(0)
FinalScore(D, axis_cols, wv) ==
    Eager([r \in 1..D.n |->
        SumSeq([i \in 1..Len(axis_cols) |->
                  Mul(wv[i], fillna(D.col[axis_cols[i]], Num(0))[r])])])

Max(x, y) == IF Lt(x, y) THEN y ELSE x

\* line 181: 0 if pd.isna(p) else max(0, (p - maxb) / (maxb + 1))
BudgetPenalty(p, maxb) ==
    IF isna(p) THEN Num(0)
    ELSE Max(Num(0), Div(Sub(p, Num(maxb)), Num(maxb + 1)))

\* the exception line 181 raises, or "ok"
BudgetStatus(D, maxb) ==
    IF ~HasCol(D, "price_inr") THEN "KeyError"
    ELSE IF \E i \in 1..D.n : D.col["price_inr"][i].t = "str" THEN "TypeError"
    ELSE IF maxb + 1 = 0 /\ \E i \in 1..D.n : IsNum(D.col["price_inr"][i])
         THEN "ZeroDivisionError"
    ELSE "ok"

Perms(k) ==
    {p \in [1..k -> 1..k] : \A i, j \in 1..k : i # j => p[i] # p[j]}

\* a comes no later than b in descending order; NaN goes last
NotAfter(a, b) == IF isna(a) THEN isna(b) ELSE isna(b) \/ Le(b, a)

\* a plausible slip: ascending=True
sort_ascending(score) ==
    {p \in Perms(Len(score)) :
        \A i, j \in 1..Len(score) : i < j => NotAfter(score[p[j]], score[p[i]])}

\* sort_values("final_score", ascending=False): the row orders it may produce.
\* The default kind is quicksort, which is not stable: rows of equal score
\* come out in an order the library does not fix.
sort_values(score) ==
    {p \in Perms(Len(score)) :
        \A i, j \in 1..Len(score) : i < j => NotAfter(score[p[i]], score[p[j]])}

\* the rows of D in the order p, re-indexed from 0 (reset_index(drop=True))
TakeRows(D, p) ==
    [obj |-> D.obj + 1, n |-> Len(p),
     col |-> [c \in DOMAIN D.col |-> [i \in 1..Len(p) |-> D.col[c][p[i]]]]]

\* D.head(k): the first k rows; for k < 0 all rows but the last -k
head(D, k) ==
    LET m == IF k >= 0 THEN (IF k < D.n THEN k ELSE D.n)
             ELSE (IF D.n + k > 0 THEN D.n + k ELSE 0)
    IN  TakeRows(D, [i \in 1..m |-> i])

\* weights.get(k, 0.0)
WeightOf(weights, k) == IF k \in DOMAIN weights THEN weights[k] ELSE Num(0)

\* filters and filters.get("max_budget")
BudgetGiven(filters) ==
    /\ ~filters.none
    /\ "max_budget" \in DOMAIN filters.v
    /\ filters.v["max_budget"] # 0

\* the axis columns and weight keys in use (lines 150-167)
FuelOn(a) == a.soft_fuel /\ TruthyStr(a.selected_fuel)
BodyOn(a) == a.soft_body /\ TruthyStr(a.selected_body)

AxisCols(a) ==
    BaseAxes \o (IF FuelOn(a) THEN <<"axis_fuel_pref">> ELSE <<>>)
             \o (IF BodyOn(a) THEN <<"axis_body_pref">> ELSE <<>>)

WeightKeys(a) ==
    BaseKeys \o (IF FuelOn(a) THEN <<"fuel_pref">> ELSE <<>>)
             \o (IF BodyOn(a) THEN <<"body_pref">> ELSE <<>>)

\* recommend up to the sort (lines 145-182): the status, the scored table D,
\* the caller's object arg as it is then, and the normalised weights w.
\* (soft_fuel_weight and soft_body_weight are not read by the body.)
Scored(df0, a) ==
    LET budget_on == BudgetGiven(a.filters)
        maxb == a.filters.v["max_budget"]
        \* lines 145-148
        WithAxes(D) ==
            IF \A ax \in Range(BaseAxes) : HasCol(D, ax) THEN D ELSE compute_axes(D).out
        \* lines 151-153
        WithFuel(D) ==
            IF FuelOn(a)
            THEN SetCol(D, "axis_fuel_pref", Eager(FuelPref(D, a.selected_fuel.v)))
            ELSE D
        \* lines 154-158
        WithBody(D) ==
            IF BodyOn(a)
            THEN With(SetCol(D, "body_clean", Eager(BodyClean(D))), LAMBDA Db :
                    SetCol(Db, "axis_body_pref",
                           Eager(BodyPref(Db.col["body_clean"], a.selected_body.v))))
            ELSE D
        \* lines 181-182
        WithPenalty(D) ==
            With(Eager([i \in 1..D.n |-> BudgetPenalty(D.col["price_inr"][i], maxb)]),
                 LAMBDA pen :
                    SetCol(SetCol(D, "budget_penalty", pen), "final_score",
                           Eager([i \in 1..D.n |->
                                    Sub(D.col["final_score"][i], Mul(Rat(1, 2), pen[i]))])))
    IN  With(WithAxes(DfCopy(df0)), LAMBDA D1 :
        With(WithFuel(D1), LAMBDA D2 :
        With(WithBody(D2), LAMBDA D3 :
        With(Eager(NormalizeWeights([i \in 1..Len(WeightKeys(a)) |->
                                       WeightOf(a.weights, WeightKeys(a)[i])])), LAMBDA wv :
        With(SetCol(D3, "final_score", FinalScore(D3, AxisCols(a), wv)), LAMBDA D4 :
        With(IF budget_on THEN BudgetStatus(D4, maxb) ELSE "ok", LAMBDA st :
        With(IF budget_on /\ st = "ok" THEN WithPenalty(D4) ELSE D4, LAMBDA D5 :
            [status |-> st, D |-> D5, arg |-> SeenBy(df0, D5), w |-> wv])))))))

\* recommend(df, weights, top_n, filters, soft_fuel, soft_body, selected_fuel,
\* selected_body): the set of outcomes the call may have, one for each row
\* order the sort may produce.  An outcome holds the status ("ok" or the
\* exception raised), the returned table out, the caller's object arg after
\* the call and the normalised weights w.
recommend(df0, a) ==
    With(Scored(df0, a), LAMBDA sc :
        IF sc.status # "ok"
        THEN {[status |-> sc.status, out |-> NoTable, arg |-> sc.arg, w |-> sc.w]}
        ELSE {[status |-> "ok", out |-> head(TakeRows(sc.D, p), a.top_n),
               arg |-> sc.arg, w |-> sc.w] :
              p \in sort_values(sc.D.col["final_score"])})

-----------------------------------------------------------------------------
(* Inputs of normalize_series.                                             *)

SeriesCells == {NaN, Text(<<"a", "b", "c">>)} \cup {Num(k) : k \in 0..MaxVal}

SeqsUpTo(S, k) == UNION {[1..m -> S] : m \in 0..k}

NoArgs ==
    [weights |-> <<>>, top_n |-> 0, filters |-> None, soft_fuel |-> FALSE,
     soft_body |-> FALSE, selected_fuel |-> None, selected_body |-> None]


InitNorm ==
    /\ fn = "none"
    /\ pc = "call"
    /\ series \in SeqsUpTo(SeriesCells, MaxLen)
    /\ catalog = NoTable
    /\ given = NoTable
    /\ args = NoArgs
    /\ calls = 0
    /\ ret = <<>>
    /\ status = "ok"
    /\ w = <<>>
    /\ text = None
    /\ compare = <<>>

-----------------------------------------------------------------------------
(* Catalogs.  Every catalog has a display column (brand) and the scoring   *)
(* columns of one of the layouts below, with cells from the layout's set.  *)

AllCells == {NaN, Text(<<"a", "b", "c">>), Num(0), Num(1), Num(3)}
FewCells == {NaN, Num(0), Num(1)}
FlagCells == {Num(0), Num(1)}

\* the rows over the columns cols with cells from cells
Cars(cols, cells) == [Range(cols) -> cells]

Layouts ==
    { Cars(<<>>, FlagCells),
      Cars(<<"price_inr">>, AllCells),
      Cars(<<"service_cost_per_year_avg">>, AllCells),
      Cars(<<"mileage_value">>, AllCells),
      Cars(<<"power_bhp", "torque_nm">>, FewCells),
      Cars(<<"airbags_num", "price_inr">>, FewCells),
      Cars(<<"sunroof_yes", "cruise_control_yes", "ground_clearance_mm">>, FlagCells) }

\* the table whose i-th row is rows[i], a row of cars
TableOf(cars, rows) ==
    [obj |-> 0, n |-> Len(rows),
     col |-> [c \in (UNION {DOMAIN car : car \in cars}) \cup {"brand"} |->
                IF c = "brand" THEN [i \in 1..Len(rows) |-> Text(<<"k", "i", "a">>)]
                ELSE [i \in 1..Len(rows) |-> rows[i][c]]]]

\* catalog is a table of up to MaxRows rows of one of the layouts
DrawCatalog(layouts) ==
    \E cars \in layouts : \E k \in 0..MaxRows : \E rows \in [1..k -> cars] :
        catalog = TableOf(cars, rows)

InitAxes ==
    /\ fn = "none"
    /\ pc = "call"
    /\ series = <<>>
    /\ DrawCatalog(Layouts)
    /\ given = catalog
    /\ args = NoArgs
    /\ calls = 0
    /\ ret = NoTable
    /\ status = "ok"
    /\ w = <<>>
    /\ text = None
    /\ compare = <<>>

\* compute_axes(df), first on the catalog and then on what it returned
ComputeAxes ==
    /\ fn \in {"none", "compute_axes"}
    /\ calls < MaxCalls
    /\ LET df == IF calls = 0 THEN catalog ELSE ret
           r == compute_axes(df)
       IN  /\ given' = df
           /\ catalog' = r.arg
           /\ ret' = r.out
    /\ calls' = calls + 1
    /\ fn' = "compute_axes"
    /\ pc' = "done"
    /\ UNCHANGED <<series, args, status, w, text, compare>>

NextAxes == ComputeAxes

SpecAxes == InitAxes /\ [][NextAxes]_vars

-----------------------------------------------------------------------------
(* Calls of recommend: the catalogs and arguments explored.                *)

PriceCells == {NaN, Text(<<"a", "b", "c">>), Num(1), Num(3)}

\* three cars with power and price: strong and dear, weak and cheap, strong and cheap
SomeCars ==
    { [c \in {"power_bhp", "price_inr"} |-> IF c = "power_bhp" THEN Num(1) ELSE Num(3)],
      [c \in {"power_bhp", "price_inr"} |-> IF c = "power_bhp" THEN Num(0) ELSE Num(1)],
      [c \in {"power_bhp", "price_inr"} |-> Num(1)] }

RecLayouts ==
    { Cars(<<>>, FlagCells), Cars(<<"price_inr">>, PriceCells), SomeCars }

AllKeys == Range(BaseKeys) \cup {"fuel_pref", "body_pref"}

WeightMaps ==
    { [k \in {"performance", "price"} |-> Num(0)],
      [k \in AllKeys |-> Num(1)],
      [k \in AllKeys |-> IF k = "performance" THEN Num(2)
                         ELSE IF k = "price" THEN Num(1) ELSE Num(0)] }

FilterArgs ==
    {None} \cup {Some([k \in {"max_budget"} |-> m]) : m \in 0..MaxBudget}

NoPrefs ==
    [soft_fuel |-> FALSE, soft_body |-> FALSE, selected_fuel |-> None,
     selected_body |-> None]

SoftPrefs ==
    [soft_fuel |-> TRUE, soft_body |-> TRUE,
     selected_fuel |-> Some(<<"D", "i", "e", "s", "e", "l">>),
     selected_body |-> Some(<<"S", "U", "V">>)]

ArgsOf(wm, k, f, pa) ==
    [weights |-> wm, top_n |-> k, filters |-> f, soft_fuel |-> pa.soft_fuel,
     soft_body |-> pa.soft_body, selected_fuel |-> pa.selected_fuel,
     selected_body |-> pa.selected_body]

\* every weight map, top_n and filter without soft preferences, and every
\* weight map with both soft preferences on
RecArgs ==
    {ArgsOf(wm, k, f, NoPrefs) :
        wm \in WeightMaps, k \in (0 - 1)..MaxRows, f \in FilterArgs}
    \cup {ArgsOf(wm, MaxRows, None, SoftPrefs) : wm \in WeightMaps}

Init ==
    /\ fn = "none"
    /\ pc = "call"
    /\ series = <<>>
    /\ DrawCatalog(RecLayouts)
    /\ given = catalog
    /\ args = NoArgs
    /\ calls = 0
    /\ ret = NoTable
    /\ status = "ok"
    /\ w = <<>>
    /\ text = None
    /\ compare = <<>>

\* recommend(df, ...), on the catalog or on what compute_axes returned for it
Recommend ==
    /\ fn \in {"none", "compute_axes"}
    /\ calls <= 1
    /\ \E a \in RecArgs :
         LET df == IF calls = 0 THEN catalog ELSE ret
         IN  \E r \in recommend(df, a) :
                /\ args' = a
                /\ given' = df
                /\ catalog' = r.arg
                /\ ret' = r.out
                /\ status' = r.status
                /\ w' = r.w
    /\ fn' = "recommend"
    /\ pc' = "done"
    /\ UNCHANGED <<series, calls, text, compare>>

Next == ComputeAxes \/ Recommend

Spec == Init /\ [][Next]_vars

NormalizeSeries ==
    /\ pc = "call"
    /\ ret' = normalize_series(series)
    /\ pc' = "done"
    /\ fn' = "normalize_series"
    /\ UNCHANGED <<series, catalog, given, args, calls, status, w, text, compare>>

NextNorm == NormalizeSeries

SpecNorm == InitNorm /\ [][NextNorm]_vars

-----------------------------------------------------------------------------
(* The compare list of src/app.py: st.session_state["compare"], changed by *)
(* the Compare / Uncompare buttons (toggle_compare) and by "Clear compare". *)

\* the car ids shown on the page
Uids == 1..MaxIds

\* uid in list
InList(l, uid) == \E k \in 1..Len(l) : l[k] = uid

\* list.remove(uid): the list without the first occurrence of uid
ListRemove(l, uid) ==
    LET k == CHOOSE j \in 1..Len(l) : l[j] = uid /\ \A i \in 1..(j - 1) : l[i] # uid
    IN  SubSeq(l, 1, k - 1) \o SubSeq(l, k + 1, Len(l))

\* a plausible slip: > in place of >= in the limit test
toggle_compare_lax(l, uid) ==
    IF InList(l, uid) THEN ListRemove(l, uid)
    ELSE IF Len(l) > 3 THEN l
    ELSE Append(l, uid)

\* the compare list after toggle_compare(uid)
toggle_compare(l, uid) ==
    IF InList(l, uid) THEN ListRemove(l, uid)
    ELSE IF Len(l) >= 3 THEN l
    ELSE Append(l, uid)

InitCompare ==
    /\ fn = "none"
    /\ pc = "call"
    /\ series = <<>>
    /\ catalog = NoTable
    /\ given = <<>>
    /\ args = NoArgs
    /\ calls = 0
    /\ ret = <<>>
    /\ status = "ok"
    /\ w = <<>>
    /\ text = None
    /\ compare = <<>>

\* a click on the Compare or Uncompare button of the car uid
ToggleCompare ==
    /\ \E uid \in Uids :
          /\ args' = [uid |-> uid]
          /\ compare' = toggle_compare(compare, uid)
    /\ given' = compare
    /\ fn' = "toggle_compare"
    /\ pc' = "done"
    /\ UNCHANGED <<series, catalog, calls, ret, status, w, text>>

\* a click on "Clear compare", shown with the table of compared cars
ClearCompare ==
    /\ compare # <<>>
    /\ compare' = <<>>
    /\ given' = compare
    /\ args' = NoArgs
    /\ fn' = "clear_compare"
    /\ pc' = "done"
    /\ UNCHANGED <<series, catalog, calls, ret, status, w, text>>

NextCompare == ToggleCompare \/ ClearCompare

SpecCompare == InitCompare /\ [][NextCompare]_vars

-----------------------------------------------------------------------------
(* map_fuel_to_category over short fuel texts.                             *)

\* FUEL_CATEGORIES
FUEL_CATEGORIES == <<"Petrol", "Diesel", "Hybrid", "CNG">>

\* a plausible slip: the diesel rule tried before the CNG rule
map_fuel_diesel_first(s) ==
    IF s.none THEN "Petrol"
    ELSE LET stt == str_lower(s.v)
         IN  IF str_contains(stt, <<"d", "i", "e", "s", "e", "l">>) \/ str_contains(stt, <<"d", "e", "i", "s", "e", "l">>) THEN "Diesel"
             ELSE IF str_contains(stt, <<"c", "n", "g">>) THEN "CNG"
             ELSE IF \/ str_contains(stt, <<"h", "y", "b", "r", "i", "d">>)
                     \/ str_contains(stt, <<"p", "h", "e", "v">>)
                     \/ str_contains(stt, <<"p", "l", "u", "g", "-", "i", "n">>)
                     \/ str_contains(stt, <<"p", "l", "u", "g", " ", "i", "n">>)
                     \/ str_contains(stt, <<"m", "i", "l", "d">>) THEN "Hybrid"
             ELSE "Petrol"

\* map_fuel_to_category(s), s None or a text
map_fuel_to_category(s) ==
    IF s.none THEN "Petrol"
    ELSE LET stt == str_lower(s.v)
         IN  IF str_contains(stt, <<"c", "n", "g">>) THEN "CNG"
             ELSE IF str_contains(stt, <<"d", "i", "e", "s", "e", "l">>) \/ str_contains(stt, <<"d", "e", "i", "s", "e", "l">>) THEN "Diesel"
             ELSE IF \/ str_contains(stt, <<"h", "y", "b", "r", "i", "d">>)
                     \/ str_contains(stt, <<"p", "h", "e", "v">>)
                     \/ str_contains(stt, <<"p", "l", "u", "g", "-", "i", "n">>)
                     \/ str_contains(stt, <<"p", "l", "u", "g", " ", "i", "n">>)
                     \/ str_contains(stt, <<"m", "i", "l", "d">>) THEN "Hybrid"
             ELSE IF \/ str_contains(stt, <<"p", "e", "t", "r", "o", "l">>)
                     \/ str_contains(stt, <<"g", "a", "s", "o", "l", "i", "n", "e">>)
                     \/ str_contains(stt, <<"t", "u", "r", "b", "o">>)
                     \/ str_contains(stt, <<"p", "e", "t", "r", "o", "l", " ">>)
                     \/ str_contains(stt, <<"p", "e", "t", "r", "o", "l", "(">>) THEN "Petrol"
             ELSE "Petrol"

\* the pieces fuel texts are put together from: the markers in the spelling
\* of the data, fragments of a marker, separators and other text
FuelTokens ==
    {<<"c", "n", "g">>,
     <<"C", "N", "G">>,
     <<"D", "i", "e", "s", "e", "l">>,
     <<"d", "e", "i", "s", "e", "l">>,
     <<"H", "y", "b", "r", "i", "d">>,
     <<"p", "h", "e", "v">>,
     <<"p", "l", "u", "g", "-", "i", "n">>,
     <<"p", "l", "u", "g", " ", "i", "n">>,
     <<"M", "i", "l", "d">>,
     <<"P", "e", "t", "r", "o", "l">>,
     <<"g", "a", "s", "o", "l", "i", "n", "e">>,
     <<"T", "u", "r", "b", "o">>,
     <<"c">>,
     <<"n", "g">>,
     <<" ">>,
     <<"+">>,
     <<"(">>,
     <<"e", "v">>,
     <<"1", ".", "5">>}

RECURSIVE Concat(_)
\* the concatenation of a sequence of texts
Concat(ts) == IF ts = <<>> THEN <<>> ELSE Head(ts) \o Concat(Tail(ts))

\* fuel texts of the manufacturers' data, longer than MaxTokens pieces
FuelExamples ==
    {<<"C", "N", "G", "+", "P", "e", "t", "r", "o", "l">>,
     <<"D", "i", "e", "s", "e", "l", " ", "T", "u", "r", "b", "o">>,
     <<"M", "i", "l", "d", " ", "H", "y", "b", "r", "i", "d", " ", "P", "e", "t", "r", "o", "l">>,
     <<"P", "e", "t", "r", "o", "l", "(", "B", "S", "6", ")">>,
     <<"E", "l", "e", "c", "t", "r", "i", "c">>,
     <<"n", "a", "n">>}

\* the fuel texts of up to k pieces, and the examples
FuelTexts(k) == {Concat(ts) : ts \in SeqsUpTo(FuelTokens, k)} \cup FuelExamples

InitFuel ==
    /\ fn = "none"
    /\ pc = "call"
    /\ series = <<>>
    /\ catalog = NoTable
    /\ given = NoTable
    /\ args = NoArgs
    /\ calls = 0
    /\ ret = <<>>
    /\ status = "ok"
    /\ w = <<>>
    /\ text \in {None} \cup {Some(x) : x \in FuelTexts(MaxTokens)}
    /\ compare = <<>>

MapFuel ==
    /\ pc = "call"
    /\ ret' = map_fuel_to_category(text)
    /\ fn' = "map_fuel_to_category"
    /\ pc' = "done"
    /\ UNCHANGED <<series, catalog, given, args, calls, status, w, text, compare>>

NextFuel == MapFuel

SpecFuel == InitFuel /\ [][NextFuel]_vars

-----------------------------------------------------------------------------
(* parse_budget_input over short budget texts.  Texts hold digits, ".",    *)
(* "-", ",", the rupee sign, blanks and the letters of the unit markers;   *)
(* float() and the regular expression are modelled on such texts (no       *)
(* exponents, no "inf" or "nan").                                          *)

IsDigit(c) == \E k \in 1..Len(Digits) : Digits[k] = c

DigitVal(c) == (CHOOSE k \in 1..Len(Digits) : Digits[k] = c) - 1

RECURSIVE IntOf(_)
\* the number written by a sequence of digits
IntOf(ds) ==
    IF ds = <<>> THEN 0
    ELSE 10 * IntOf(SubSeq(ds, 1, Len(ds) - 1)) + DigitVal(ds[Len(ds)])

RECURSIVE Pow10(_)
Pow10(k) == IF k = 0 THEN 1 ELSE 10 * Pow10(k - 1)

RECURSIVE DigitRun(_, _)
\* the length of the longest run of digits of str that starts at position q
DigitRun(str, q) ==
    IF q <= Len(str) /\ IsDigit(str[q]) THEN 1 + DigitRun(str, q + 1) ELSE 0

\* str.replace(c, ""), c one character
str_remove(str, c) == SelectSeq(str, LAMBDA x : x # c)

\* str.endswith(c), c one character
endswith(str, c) == str # <<>> /\ str[Len(str)] = c

\* float(str): Some(value), or None for ValueError.  Blanks around the
\* number are skipped; the number is a sign, digits and at most one point,
\* with a digit on at least one side of the point.
float(str) ==
    LET b0 == str_strip(str)
        signed == b0 # <<>> /\ b0[1] \in {"-", "+"}
        neg == b0 # <<>> /\ b0[1] = "-"
        b == IF signed THEN Tail(b0) ELSE b0
        a == DigitRun(b, 1)
        dot == a < Len(b) /\ b[a + 1] = "."
        f == IF dot THEN DigitRun(b, a + 2) ELSE 0
        used == a + (IF dot THEN 1 + f ELSE 0)
        ds == SubSeq(b, 1, a) \o SubSeq(b, a + 2, a + 1 + f)
    IN  IF used = Len(b) /\ a + f > 0
        THEN Some(Rat((IF neg THEN -1 ELSE 1) * IntOf(ds), Pow10(f)))
        ELSE None

\* the last position of the match of [-+]?[0-9]*\.?[0-9]+ that starts at
\* position p of str, or 0 when there is none
MatchEnd(str, p) ==
    LET q == IF str[p] \in {"-", "+"} THEN p + 1 ELSE p
        a == DigitRun(str, q)
        f == IF q + a <= Len(str) /\ str[q + a] = "." THEN DigitRun(str, q + a + 1) ELSE 0
    IN  IF f > 0 THEN q + a + f
        ELSE IF a > 0 THEN q + a - 1
        ELSE 0

\* re.findall(r"[-+]?[0-9]*\.?[0-9]+", str): Some(m[0]), or None when m is empty
findall_first(str) ==
    IF \E p \in 1..Len(str) : MatchEnd(str, p) > 0
    THEN LET p == CHOOSE i \in 1..Len(str) :
                     MatchEnd(str, i) > 0 /\ \A j \in 1..(i - 1) : MatchEnd(str, j) = 0
         IN  Some(SubSeq(str, p, MatchEnd(str, p)))
    ELSE None

\* int(round(x)): the nearest integer, the even one of two equally near
round(x) ==
    LET fl == IF x.n >= 0 THEN x.n \div x.d ELSE -((-x.n + x.d - 1) \div x.d)
        r2 == 2 * (x.n - fl * x.d)
    IN  IF r2 < x.d THEN fl
        ELSE IF r2 > x.d THEN fl + 1
        ELSE IF fl % 2 = 0 THEN fl ELSE fl + 1

\* x * unit for a whole number unit, cancelling before multiplying
Times(x, unit) ==
    LET g == GCD(x.d, unit)
    IN  Rat(x.n * (unit \div g), x.d \div g)

\* int(round(float(str) * unit)), None when float raises
Scaled(str, unit) ==
    LET v == float(str)
    IN  IF v.none THEN None ELSE Some(round(Times(v.v, unit)))

\* a plausible slip: 1000 itself taken as an absolute amount
ScaleBareInclusive(val) ==
    IF Le(Num(100000), val) THEN round(val)
    ELSE IF Le(Num(1000), val) /\ Lt(val, Num(100000)) THEN round(val)
    ELSE round(Times(val, 100000))

\* the amount for a literal without unit: lines 73-75
ScaleBare(val) ==
    IF Le(Num(100000), val) THEN round(val)
    ELSE IF Lt(Num(1000), val) /\ Lt(val, Num(100000)) THEN round(val)
    ELSE round(Times(val, 100000))

\* s0: the text stripped, lower-cased, without "," and the rupee sign
Cleaned(str) == str_remove(str_remove(str_lower(str_strip(str)), ","), "₹")

\* parse_budget_input(s), s None or a text: Some(amount) or None
parse_budget_input(s) ==
    IF s.none THEN None
    ELSE LET s0 == Cleaned(s.v)
             m == findall_first(s0)
             front == SubSeq(s0, 1, Len(s0) - 1)
         IN  IF s0 = <<>> THEN None
             ELSE IF str_contains(s0, <<"c", "r">>) \/ str_contains(s0, <<"c", "r", "o", "r", "e">>)
                  THEN IF m.none THEN None ELSE Scaled(m.v, 10000000)
             ELSE IF /\ str_contains(s0, <<"l", "a", "k", "h">>) \/ str_contains(s0, <<"l", "a", "k", "h", "s">>)
                     /\ ~endswith(s0, "k")
                  THEN IF m.none THEN None ELSE Scaled(m.v, 100000)
             ELSE IF endswith(s0, "l") /\ ~endswith(s0, "k") /\ ~float(front).none
                  THEN Scaled(front, 100000)
             ELSE IF endswith(s0, "k")
                  THEN Scaled(front, 1000)
             ELSE IF m.none THEN None
             ELSE Some(ScaleBare(float(m.v).v))

\* the pieces budget texts are put together from
BudgetPieces ==
    {<<"0">>,
     <<"1">>,
     <<".", "5">>,
     <<".">>,
     <<"-">>,
     <<",">>,
     <<"₹">>,
     <<" ">>,
     <<"k">>,
     <<"K">>,
     <<"l">>,
     <<"c", "r">>,
     <<"l", "a", "k", "h">>,
     <<"a">>}

\* budget texts a user may type, longer than MaxPieces pieces
BudgetExamples ==
    {<<"1", "0">>,
     <<"1", "0", ".", "5">>,
     <<"₹", "1", "2", ".", "5">>,
     <<"5", "0", "0", "0", "0">>,
     <<"1", "0", "0", "0">>,
     <<"1", "0", "0", "0", "0", "0">>,
     <<"1", "0", "0", "k">>,
     <<"1", ".", "2", "c", "r">>,
     <<"1", "0", "0", "0", ".", "5">>,
     <<"1", "0", "0", "0", "0", "0", ".", "5">>,
     <<"1", "0", "0", "1">>,
     <<"9", "9", "9", "9", "9">>,
     <<"2", ".", "5", "k">>,
     <<"2", " ", "l", "a", "k", "h", "s">>,
     <<"R", "s", " ", "5", "k">>,
     <<"1", ",", "0", "0", ",", "0", "0", "0">>,
     <<"5", " ", "l", "a", "k", "h", " ", "k">>,
     <<"1", ".", "5", "L">>}

\* the budget texts of up to k pieces, and the examples
BudgetTexts(k) == {Concat(ts) : ts \in SeqsUpTo(BudgetPieces, k)} \cup BudgetExamples

InitBudget ==
    /\ fn = "none"
    /\ pc = "call"
    /\ series = <<>>
    /\ catalog = NoTable
    /\ given = NoTable
    /\ args = NoArgs
    /\ calls = 0
    /\ ret = <<>>
    /\ status = "ok"
    /\ w = <<>>
    /\ text \in {None} \cup {Some(x) : x \in BudgetTexts(MaxPieces)}
    /\ compare = <<>>

ParseBudget ==
    /\ pc = "call"
    /\ ret' = parse_budget_input(text)
    /\ fn' = "parse_budget_input"
    /\ pc' = "done"
    /\ UNCHANGED <<series, catalog, given, args, calls, status, w, text, compare>>

NextBudget == ParseBudget

SpecBudget == InitBudget /\ [][NextBudget]_vars

-----------------------------------------------------------------------------
(* Calls of recommend with soft preferences: catalogs with and without the *)
(* fuel and body columns, and the combinations of soft_* and selected_*.   *)

\* four cars with fuel and body text: a match of both preferences, the
\* same in another spelling, missing text, and another fuel and body
SoftCars ==
    { [c \in {"fuel_category", "body_type", "power_bhp"} |->
          IF c = "fuel_category" THEN Text(<<"D", "i", "e", "s", "e", "l">>)
          ELSE IF c = "body_type" THEN Text(<<" ", "S", "U", "V", " ">>)
          ELSE Num(1)],
      [c \in {"fuel_category", "body_type", "power_bhp"} |->
          IF c = "fuel_category" THEN Text(<<"d", "i", "e", "s", "e", "l">>)
          ELSE IF c = "body_type" THEN Text(<<"C", "o", "m", "p", "a", "c", "t", " ", "s", "u", "v">>)
          ELSE Num(0)],
      [c \in {"fuel_category", "body_type", "power_bhp"} |->
          IF c = "fuel_category" THEN NaN
          ELSE IF c = "body_type" THEN NaN
          ELSE Num(1)],
      [c \in {"fuel_category", "body_type", "power_bhp"} |->
          IF c = "fuel_category" THEN Text(<<"P", "e", "t", "r", "o", "l">>)
          ELSE IF c = "body_type" THEN Text(<<"S", "e", "d", "a", "n">>)
          ELSE Num(0)] }

\* two cars whose body text is in original_body_type only
OrigBodyCars ==
    { [c \in {"fuel_category", "original_body_type", "power_bhp"} |->
          IF c = "fuel_category" THEN Text(<<"D", "i", "e", "s", "e", "l">>)
          ELSE IF c = "original_body_type" THEN Text(<<"S", "U", "V">>)
          ELSE Num(1)],
      [c \in {"fuel_category", "original_body_type", "power_bhp"} |->
          IF c = "fuel_category" THEN Text(<<"P", "e", "t", "r", "o", "l">>)
          ELSE IF c = "original_body_type" THEN Text(<<"S", "e", "d", "a", "n">>)
          ELSE Num(0)] }

SoftLayouts == { SoftCars, OrigBodyCars, SomeCars }

SoftWeightMaps ==
    WeightMaps \cup
    { [k \in AllKeys |-> IF k = "fuel_pref" THEN Num(2)
                         ELSE IF k \in {"body_pref", "performance"} THEN Num(1)
                         ELSE Num(0)] }

\* both preferences soft; fuel only (body selected but not soft); body only
\* (fuel soft but nothing selected); fuel soft with an empty selection
PrefArgs ==
    { NoPrefs, SoftPrefs,
      [SoftPrefs EXCEPT !.soft_body = FALSE],
      [SoftPrefs EXCEPT !.selected_fuel = None],
      [NoPrefs EXCEPT !.soft_fuel = TRUE, !.selected_fuel = Some(<<>>)] }

SoftArgs == {ArgsOf(wm, MaxRows, None, pa) : wm \in SoftWeightMaps, pa \in PrefArgs}

InitSoft ==
    /\ fn = "none"
    /\ pc = "call"
    /\ series = <<>>
    /\ DrawCatalog(SoftLayouts)
    /\ given = catalog
    /\ args = NoArgs
    /\ calls = 0
    /\ ret = NoTable
    /\ status = "ok"
    /\ w = <<>>
    /\ text = None
    /\ compare = <<>>

\* recommend(df, ...) with soft preferences, on the catalog
RecommendSoft ==
    /\ fn = "none"
    /\ \E a \in SoftArgs :
         \E r \in recommend(catalog, a) :
            /\ args' = a
            /\ given' = catalog
            /\ catalog' = r.arg
            /\ ret' = r.out
            /\ status' = r.status
            /\ w' = r.w
    /\ fn' = "recommend"
    /\ pc' = "done"
    /\ UNCHANGED <<series, calls, text, compare>>

NextSoft == RecommendSoft

SpecSoft == InitSoft /\ [][NextSoft]_vars

-----------------------------------------------------------------------------
(* Properties of normalize_series (checked under SpecNorm).                *)

NormDone == fn = "normalize_series" /\ pc = "done"

\* the numeric entries of the argument, and its entries after the median fill
PresentAt == {i \in 1..Len(series) : IsNum(series[i])}
FilledAt(i) == IF i \in PresentAt THEN series[i] ELSE median(to_numeric(series))
IsConstantFilled == \A i, j \in 1..Len(series) : FilledAt(i) = FilledAt(j)
IsLeast(i) == \A j \in 1..Len(series) : Le(FilledAt(i), FilledAt(j))
IsGreatest(i) == \A j \in 1..Len(series) : Le(FilledAt(j), FilledAt(i))

\* C6: normalize_series returns a series of the length and order of its
\* argument with no missing entry.  When every value is missing or the
\* median-filled column is constant every output is 0; otherwise each output
\* is (v - min) / (max - min) of the median-filled value v, lies in [0, 1],
\* is 0 at every minimum and 1 at every maximum.
C6_NormalizeSeries ==
    NormDone =>
        /\ Len(ret) = Len(series)
        /\ \A i \in 1..Len(ret) : IsNum(ret[i])
        /\ IF PresentAt = {} \/ IsConstantFilled
           THEN \A i \in 1..Len(ret) : ret[i] = Num(0)
           ELSE \A i \in 1..Len(ret) : \A lo, hi \in 1..Len(ret) :
                    (IsLeast(lo) /\ IsGreatest(hi)) =>
                        /\ Mul(ret[i], Sub(FilledAt(hi), FilledAt(lo)))
                              = Sub(FilledAt(i), FilledAt(lo))
                        /\ Le(Num(0), ret[i]) /\ Le(ret[i], Num(1))
                        /\ (IsLeast(i) => ret[i] = Num(0))
                        /\ (IsGreatest(i) => ret[i] = Num(1))

\* a call on a column with a missing and a non-numeric entry whose outputs
\* are 0, 1 and a value strictly between
C6_Witness ==
    /\ NormDone
    /\ \E i \in 1..Len(series) : isna(series[i])
    /\ \E i \in 1..Len(ret) : ret[i] = Num(0)
    /\ \E i \in 1..Len(ret) : ret[i] = Num(1)
    /\ \E i \in 1..Len(ret) : Lt(Num(0), ret[i]) /\ Lt(ret[i], Num(1))

-----------------------------------------------------------------------------
(* Properties of compute_axes (checked under SpecAxes).                    *)

AxesDone == fn = "compute_axes" /\ pc = "done"

\* the raw columns each axis is derived from (lines 115-124)
Contributing(ax) ==
    CASE ax = "axis_performance" -> Range(PerfCols)
      [] ax = "axis_economy" -> Range(EcoCols)
      [] ax = "axis_safety" -> Range(SafetyCols)
      [] ax = "axis_comfort" -> Range(ComfortCols)
      [] ax = "axis_ownership" -> {"service_cost_per_year_avg"}
      [] ax = "axis_price" -> {"price_inr"}

AllZero(s) == \A i \in 1..Len(s) : s[i] = Num(0)

\* C7: compute_axes gives every record all six axis columns, each value a
\* number in [0, 1]; an axis none of whose contributing columns exists is 0
\* for every record.
C7_AxesDefined ==
    AxesDone =>
        /\ ret.n = given.n
        /\ \A ax \in Range(BaseAxes) :
              /\ HasCol(ret, ax)
              /\ Len(ret.col[ax]) = given.n
              /\ \A i \in 1..given.n :
                    /\ IsNum(ret.col[ax][i])
                    /\ Le(Num(0), ret.col[ax][i]) /\ Le(ret.col[ax][i], Num(1))
              /\ (Contributing(ax) \cap DOMAIN given.col = {}) => AllZero(ret.col[ax])

\* a catalog with power and torque but no economy column: the performance
\* axis takes a value strictly inside (0, 1) and the economy axis is 0
C7_Witness ==
    /\ AxesDone
    /\ calls = 1
    /\ {"power_bhp", "torque_nm"} \subseteq DOMAIN given.col
    /\ \E i \in 1..ret.n :
          /\ Lt(Num(0), ret.col["axis_performance"][i])
          /\ Lt(ret.col["axis_performance"][i], Num(1))
    /\ ret.n >= 2 /\ AllZero(ret.col["axis_economy"])

\* a column is degenerate when every value is missing or every value is the
\* same number
Degenerate(s) ==
    \/ \A i \in 1..Len(s) : ~IsNum(s[i])
    \/ \A i, j \in 1..Len(s) : IsNum(s[i]) /\ s[i] = s[j]

\* C8: on each of the six axes, a catalog whose contributing columns are
\* present but degenerate gets 0 for every record, as a catalog without
\* those columns does.
C8_DegenerateIsZero ==
    (AxesDone /\ calls = 1) =>
        \A ax \in Range(BaseAxes) :
            (/\ Contributing(ax) \cap DOMAIN given.col # {}
             /\ \A c \in Contributing(ax) \cap DOMAIN given.col : Degenerate(given.col[c]))
                => AllZero(ret.col[ax])

\* C9: compute_axes applied to its own output gives the same six axis
\* columns, value for value.
C9_Idempotent ==
    (AxesDone /\ calls >= 2) =>
        \A ax \in Range(BaseAxes) : ret.col[ax] = given.col[ax]

\* a second call on a table whose axes are not all constant
C9_Witness ==
    /\ AxesDone
    /\ calls = 2
    /\ \E ax \in Range(BaseAxes) : \E i \in 1..ret.n :
          Lt(Num(0), ret.col[ax][i]) /\ Lt(ret.col[ax][i], Num(1))

-----------------------------------------------------------------------------
(* Properties of recommend (checked under Spec).                           *)

RecDone == fn = "recommend" /\ pc = "done"

\* the call returned a table (it did not raise)
Returned == RecDone /\ status = "ok"

Score(i) == ret.col["final_score"][i]

\* C1: for top_n >= 0 a call of recommend gives exactly min(top_n, n)
\* records, ordered so that final_score never increases from one record to
\* the next; with top_n = 0 the result is empty.  A call without a budget
\* penalty always returns; a call that raises in the penalty (line 181)
\* returns no table, and the length and order are those of returning calls.
C1_LengthAndOrder ==
    (RecDone /\ args.top_n >= 0) =>
        /\ ~BudgetGiven(args.filters) => status = "ok"
        /\ status = "ok" =>
              /\ ret.n = (IF args.top_n < given.n THEN args.top_n ELSE given.n)
              /\ \A c \in DOMAIN ret.col : Len(ret.col[c]) = ret.n
              /\ \A i \in 1..(ret.n - 1) :
                    IsNum(Score(i)) /\ IsNum(Score(i + 1)) /\ Le(Score(i + 1), Score(i))
              /\ (args.top_n = 0 => ret.n = 0)

\* a call with a budget penalty that cuts the catalog short and returns
\* records of strictly decreasing score
C1_Witness ==
    /\ Returned
    /\ BudgetGiven(args.filters)
    /\ args.top_n >= 2 /\ args.top_n < given.n
    /\ ret.n = args.top_n
    /\ Lt(Score(2), Score(1))

\* the weighted axis sum of the i-th returned record, before any penalty
Unpenalised(i) ==
    SumSeq([k \in 1..Len(w) |-> Mul(w[k], fillna(ret.col[AxisCols(args)[k]], Num(0))[i])])

\* a max_budget value M >= 0 is supplied in filters
BudgetSupplied ==
    /\ ~args.filters.none
    /\ "max_budget" \in DOMAIN args.filters.v
    /\ args.filters.v["max_budget"] >= 0

\* C2: when a max_budget M >= 0 is supplied, each record's final_score is
\* its weighted axis sum minus 0.5 * max(0, (price - M) / (M + 1)): strictly
\* lower than the un-penalised score when price > M, equal to it when
\* price <= M or the price is unknown.
C2_BudgetPenalty ==
    (Returned /\ BudgetSupplied) =>
        LET M == Num(args.filters.v["max_budget"])
        IN  \A i \in 1..ret.n :
                LET price == IF HasCol(ret, "price_inr") THEN ret.col["price_inr"][i] ELSE NaN
                IN  IF IsNum(price) /\ Lt(M, price)
                    THEN /\ Score(i) = Sub(Unpenalised(i),
                                           Mul(Rat(1, 2), Div(Sub(price, M), Add(M, Num(1)))))
                         /\ Lt(Score(i), Unpenalised(i))
                    ELSE Score(i) = Unpenalised(i)

\* the active weights of the call are all zero
ZeroWeights == \A i \in 1..Len(WeightKeys(args)) : WeightOf(args.weights, WeightKeys(args)[i]) = Num(0)

\* the call's arguments with the weight c on every active axis
UniformArgs(c) == [args EXCEPT !.weights = [k \in Range(WeightKeys(args)) |-> Num(c)]]

\* C3: the weights of the active axes are normalised to sum to 1; a weight
\* map whose active weights are all zero or absent gives the outcome (the
\* scores and the ranking) a map with the same positive weight on every
\* active axis gives; it yields no undefined score, and no all-zero score
\* column unless every axis is zero or a penalty applies.
C3_WeightsNormalised ==
    RecDone =>
        /\ Len(w) = Len(AxisCols(args))
        /\ SumSeq(w) = Num(1)
        /\ ZeroWeights =>
              /\ \A c \in {1, MaxWeight} :
                    <<status, ret>> \in {<<r.status, r.out>> : r \in recommend(given, UniformArgs(c))}
              /\ status = "ok" =>
                    /\ \A i \in 1..ret.n : IsNum(Score(i))
                    /\ (/\ ~BudgetGiven(args.filters)
                        /\ \E ax \in Range(BaseAxes) : \E i \in 1..ret.n : ret.col[ax][i] # Num(0))
                          => \E i \in 1..ret.n : Score(i) # Num(0)

\* a call with all-zero weights on a catalog whose records score differently
C3_Witness ==
    /\ Returned
    /\ ZeroWeights
    /\ ret.n >= 2
    /\ Lt(Score(2), Score(1))

\* C4: for top_n <= 0 (zero or negative) recommend returns an empty result.
C4_NonPositiveTopNEmpty ==
    (Returned /\ args.top_n <= 0) => ret.n = 0

\* the row order of a stable descending sort: rows of equal score keep
\* their input order
StableOrder(score) ==
    CHOOSE p \in sort_values(score) :
        \A i, j \in 1..Len(score) : (i < j /\ score[p[i]] = score[p[j]]) => p[i] < p[j]

\* C5: records of equal final_score are returned in the relative order they
\* have in the input catalog, so the result is fixed by the input.
C5_StableTies ==
    Returned =>
        LET D == Scored(given, args).D
        IN  ret = head(TakeRows(D, StableOrder(D.col["final_score"])), args.top_n)

\* C10: compute_axes and recommend leave the table passed to them as it
\* was: the same rows, columns and cell values, in the same order.
C10_InputUnchanged ==
    pc = "done" => catalog = given

\* a call of recommend on a catalog with a non-numeric price: the result
\* has the price coerced and the score columns, the catalog has neither
C10_Witness ==
    /\ Returned
    /\ calls = 0
    /\ HasCol(catalog, "price_inr")
    /\ \E i \in 1..catalog.n : catalog.col["price_inr"][i].t = "str"
    /\ HasCol(ret, "final_score") /\ ~HasCol(catalog, "final_score")
    /\ HasCol(ret, "budget_penalty")
    /\ ret.n = catalog.n
    /\ ret.col["price_inr"] # catalog.col["price_inr"]

-----------------------------------------------------------------------------
(* Properties of the compare list (checked under SpecCompare).             *)

\* the list before the last click without the id clicked
Without(l, uid) == SelectSeq(l, LAMBDA x : x # uid)

\* C17: after any sequence of toggle_compare calls and "Clear compare"
\* clicks from an empty list, the compare list holds at most 3 ids and no
\* id twice; toggle_compare on an id in the list removes it, on an id not
\* in the list appends it when the list has fewer than 3 entries, and
\* otherwise leaves the list as it was.
C17_CompareList ==
    /\ Len(compare) <= 3
    /\ \A i, j \in 1..Len(compare) : compare[i] = compare[j] => i = j
    /\ fn = "toggle_compare" =>
          IF InList(given, args.uid) THEN compare = Without(given, args.uid)
          ELSE IF Len(given) < 3 THEN compare = Append(given, args.uid)
          ELSE compare = given

\* a click on Compare for a fourth car, with three cars in the list
C17_Witness ==
    /\ fn = "toggle_compare"
    /\ Len(given) = 3
    /\ ~InList(given, args.uid)
    /\ compare = given

-----------------------------------------------------------------------------
(* Properties of map_fuel_to_category (checked under SpecFuel).            *)

FuelDone == fn = "map_fuel_to_category" /\ pc = "done"

\* the lower-cased argument holds the marker m
Marked(m) == ~text.none /\ str_contains(str_lower(text.v), m)

HasCng == Marked(<<"c", "n", "g">>)
HasDiesel == Marked(<<"d", "i", "e", "s", "e", "l">>) \/ Marked(<<"d", "e", "i", "s", "e", "l">>)
HasHybrid ==
    \/ Marked(<<"h", "y", "b", "r", "i", "d">>) \/ Marked(<<"p", "h", "e", "v">>) \/ Marked(<<"m", "i", "l", "d">>)
    \/ Marked(<<"p", "l", "u", "g", "-", "i", "n">>) \/ Marked(<<"p", "l", "u", "g", " ", "i", "n">>)

\* C14: map_fuel_to_category returns exactly one of Petrol, Diesel, Hybrid,
\* CNG for every input, by the first matching rule in the order CNG marker,
\* diesel marker (or its misspelling), hybrid / plug-in / mild marker,
\* petrol / gasoline / turbo marker, and Petrol for absent or unrecognised
\* text: "CNG+Petrol" is CNG, "Diesel Turbo" is Diesel and "Mild Hybrid
\* Petrol" is Hybrid.
C14_FuelCategory ==
    FuelDone =>
        /\ status = "ok"
        /\ \E k \in 1..Len(FUEL_CATEGORIES) : ret = FUEL_CATEGORIES[k]
        /\ ret = "CNG" <=> HasCng
        /\ ret = "Diesel" <=> (~HasCng /\ HasDiesel)
        /\ ret = "Hybrid" <=> (~HasCng /\ ~HasDiesel /\ HasHybrid)
        /\ ret = "Petrol" <=> (~HasCng /\ ~HasDiesel /\ ~HasHybrid)
        /\ text = Some(<<"C", "N", "G", "+", "P", "e", "t", "r", "o", "l">>) => ret = "CNG"
        /\ text = Some(<<"D", "i", "e", "s", "e", "l", " ", "T", "u", "r", "b", "o">>) => ret = "Diesel"
        /\ text = Some(<<"M", "i", "l", "d", " ", "H", "y", "b", "r", "i", "d", " ", "P", "e", "t", "r", "o", "l">>) => ret = "Hybrid"
        /\ text = None => ret = "Petrol"

\* a text with a diesel marker before a CNG marker, mapped to CNG
C14_Witness ==
    /\ FuelDone
    /\ HasCng /\ HasDiesel
    /\ text.v[1] = "D"
    /\ ret = "CNG"

-----------------------------------------------------------------------------
(* Properties of parse_budget_input (checked under SpecBudget).            *)

BudgetDone == fn = "parse_budget_input" /\ pc = "done"

\* the argument as the unit rules see it
S0 == IF text.none THEN <<>> ELSE Cleaned(text.v)

CroreMarked == str_contains(S0, <<"c", "r">>)
LakhMarked == str_contains(S0, <<"l", "a", "k", "h">>)

\* a text without unit: no crore or lakh marker, no trailing l or k
NoSuffix == S0 # <<>> /\ ~CroreMarked /\ ~LakhMarked /\ ~endswith(S0, "l") /\ ~endswith(S0, "k")

\* the first numeric literal of the text, if any, and its value
Literal == findall_first(S0)
V == float(Literal.v).v

\* the whole number r is a nearest integer of x
Nearest(r, x) == Le(Sub(Num(r), x), Rat(1, 2)) /\ Le(Sub(x, Num(r)), Rat(1, 2))

\* C11: for a text without unit whose first numeric literal is v, the
\* result is round(v) when v >= 100,000 or 1,000 < v < 100,000 and
\* round(v * 100,000) when v <= 1,000: "10" gives 1,000,000, "10.5" gives
\* 1,050,000, the rupee sign with "12.5" gives 1,250,000 and "50000" gives
\* 50,000; an empty or absent text gives an absent result.
C11_BareLiteral ==
    BudgetDone =>
        /\ status = "ok"
        /\ (text.none \/ text.v = <<>>) => ret = None
        /\ (NoSuffix /\ ~Literal.none) =>
              /\ ~ret.none
              /\ Le(Num(100000), V) => Nearest(ret.v, V)
              /\ (Lt(Num(1000), V) /\ Lt(V, Num(100000))) => Nearest(ret.v, V)
              /\ Le(V, Num(1000)) => Nearest(ret.v, Times(V, 100000))
        /\ text = Some(<<"1", "0">>) => ret = Some(1000000)
        /\ text = Some(<<"1", "0", ".", "5">>) => ret = Some(1050000)
        /\ text = Some(<<"₹", "1", "2", ".", "5">>) => ret = Some(1250000)
        /\ text = Some(<<"5", "0", "0", "0", "0">>) => ret = Some(50000)

\* a literal with a fraction and a currency sign, read as lakhs
C11_Witness ==
    /\ BudgetDone
    /\ text = Some(<<"₹", "1", "2", ".", "5">>)
    /\ NoSuffix
    /\ V = Rat(25, 2)
    /\ ret = Some(1250000)

\* C12: a text without unit whose literal is exactly 1,000 gives 1,000 (it
\* is not multiplied by 100,000), and one whose literal is exactly 100,000
\* gives 100,000.
C12_BoundaryAbsolute ==
    (BudgetDone /\ NoSuffix /\ ~Literal.none) =>
        /\ V = Num(1000) => ret = Some(1000)
        /\ V = Num(100000) => ret = Some(100000)

\* a text that ends in k and holds neither a crore nor a lakh marker
EndsInK == endswith(S0, "k") /\ ~CroreMarked /\ ~LakhMarked

\* C13: for a text that ends in k, without crore or lakh marker, the result
\* is the text's numeric literal times 1,000, rounded, whatever stands
\* before the literal; it is absent only when the text holds no numeric
\* literal, and the call never raises.
C13_ThousandSuffix ==
    (BudgetDone /\ EndsInK) =>
        /\ status = "ok"
        /\ ret.none <=> Literal.none
        /\ ~Literal.none => (~ret.none /\ Nearest(ret.v, Times(V, 1000)))

-----------------------------------------------------------------------------
(* Properties of the soft preferences of recommend (checked under SpecSoft). *)

\* soft_fuel is set and a fuel category is selected; likewise for the body
FuelSelected == args.soft_fuel /\ ~args.selected_fuel.none /\ args.selected_fuel.v # <<>>
BodySelected == args.soft_body /\ ~args.selected_body.none /\ args.selected_body.v # <<>>

\* the fuel category of the i-th returned record equals the selection
FuelMatches(i) ==
    /\ HasCol(ret, "fuel_category")
    /\ ret.col["fuel_category"][i].t = "str"
    /\ ret.col["fuel_category"][i].s = args.selected_fuel.v

\* the body text of the i-th returned record, lower-cased and trimmed,
\* holds the lower-cased selection
BodyMatches(i) ==
    LET c == IF HasCol(ret, "body_type") THEN "body_type" ELSE "original_body_type"
    IN  /\ HasCol(ret, c)
        /\ ret.col[c][i].t = "str"
        /\ str_contains(str_lower(str_strip(ret.col[c][i].s)), str_lower(args.selected_body.v))

\* the axes that enter the score and the keys their weights are found under
ActiveAxes ==
    BaseAxes \o (IF FuelSelected THEN <<"axis_fuel_pref">> ELSE <<>>)
             \o (IF BodySelected THEN <<"axis_body_pref">> ELSE <<>>)
ActiveKeys ==
    BaseKeys \o (IF FuelSelected THEN <<"fuel_pref">> ELSE <<>>)
             \o (IF BodySelected THEN <<"body_pref">> ELSE <<>>)

\* the weight found under key k, 0 if absent
OwnWeight(k) == IF k \in DOMAIN args.weights THEN args.weights[k] ELSE Num(0)

\* the sum of the weights of the active axes
ActiveSum == SumSeq([k \in 1..Len(ActiveKeys) |-> OwnWeight(ActiveKeys[k])])

\* C15: recommend builds the fuel-preference axis exactly when soft_fuel is
\* set and a fuel category is selected, and the body-preference axis
\* exactly when soft_body is set and a body text is selected; a built axis
\* is 1.0 for a record whose fuel category equals the selection (fuel) or
\* whose lower-cased, trimmed body text holds the lower-cased selection
\* (body), else 0.0; it enters final_score with the weight found under its
\* own key (0 if absent); without soft preferences final_score is the
\* weighted sum of the six base axes only.
C15_SoftPreferences ==
    Returned =>
        /\ HasCol(ret, "axis_fuel_pref") <=> FuelSelected
        /\ HasCol(ret, "axis_body_pref") <=> BodySelected
        /\ FuelSelected =>
              \A i \in 1..ret.n :
                  ret.col["axis_fuel_pref"][i] = (IF FuelMatches(i) THEN Num(1) ELSE Num(0))
        /\ BodySelected =>
              \A i \in 1..ret.n :
                  ret.col["axis_body_pref"][i] = (IF BodyMatches(i) THEN Num(1) ELSE Num(0))
        /\ Len(w) = Len(ActiveKeys)
        /\ ActiveSum # Num(0) =>
              \A k \in 1..Len(ActiveKeys) : Mul(w[k], ActiveSum) = OwnWeight(ActiveKeys[k])
        /\ \A i \in 1..ret.n :
              Score(i) = SumSeq([k \in 1..Len(ActiveAxes) |-> Mul(w[k], ret.col[ActiveAxes[k]][i])])

-----------------------------------------------------------------------------
(* Failures of recommend (checked under Spec).                             *)

\* the price of the i-th returned record is unknown: no price column, or
\* a cell that is missing or not a number
NoUsablePrice(i) == ~HasCol(ret, "price_inr") \/ ~IsNum(ret.col["price_inr"][i])

\* C16: recommend never fails because an optional catalog attribute is
\* absent or malformed: for every catalog, also one without price column
\* or with non-numeric price cells, and every max_budget supplied, the
\* call returns a ranked result in which a record without usable price
\* has budget penalty 0; the outcome is never an error.
C16_NeverFails ==
    RecDone =>
        /\ status = "ok"
        /\ HasCol(ret, "final_score")
        /\ \A i \in 1..(ret.n - 1) : Le(Score(i + 1), Score(i))
        /\ BudgetGiven(args.filters) =>
              \A i \in 1..ret.n :
                  NoUsablePrice(i) =>
                      /\ Score(i) = Unpenalised(i)
                      /\ HasCol(ret, "budget_penalty") => ret.col["budget_penalty"][i] = Num(0)

====
